---- MODULE Spec2Model ----
(***************************************************************************)
(* Model of commander.py: the single-slot asynchronous command executor    *)
(* (class Commander), its ThreadPoolExecutor worker with one thread, the   *)
(* Future of each submitted command and the caller threads that use the    *)
(* public methods; and of camera_manager.py: the settings cache (class     *)
(* CameraManager) that runs gphoto2 through the Commander and parses what  *)
(* it prints.  Spec has threads that call the Commander directly, CamSpec  *)
(* has threads that call the CameraManager.                                *)
(*                                                                         *)
(* threading.Lock is not re-entrant and not fair.  A 'with self._lock'     *)
(* block that makes no blocking call is one atomic action; a block that    *)
(* sleeps or calls out while holding the lock keeps `lock` set between     *)
(* actions.                                                                *)
(***************************************************************************)
EXTENDS Integers, Sequences, FiniteSets, TLC

\* ---- bounds -------------------------------------------------------------
NumCallers == 2          \* caller threads
MaxJobs == 2             \* commands handed to the executor in one run
MaxCalls == 4            \* public method calls made in one run
MaxStartup == 1          \* largest startup_timeout a caller passes
NumSettings == 2         \* entries of _config_map the model maps
MaxCamOps == 2           \* CameraManager method calls made in one run
NumCamCallers == 1       \* threads that call the CameraManager
MaxNumber == 4           \* largest magnitude int() is applied to
MaxChoices == 2          \* Choice lines of a RADIO text
CamStartupTimeout == 10  \* startup_timeout of lines 45 and 62

Callers == 1..NumCallers
Jobs == 1..MaxJobs
StartupTimeouts == (-1)..MaxStartup

\* outcome of subprocess.run inside _run_command_internal
Returned == {"exit0", "nonzero"}
Raised == {"TimeoutError", "FileNotFoundError", "RuntimeError"}
Outcomes == Returned \cup Raised

VARIABLES
    is_busy,            \* Commander._is_busy
    last,               \* (_last_stdout, _last_stderr, _last_return_code)
    current_future,     \* Commander._current_future, 0 is None
    lock,               \* holder of Commander._lock, 0 is unlocked
    queue,              \* ThreadPoolExecutor work queue
    fut,                \* the Future of each job
    njobs,              \* futures created so far
    wpc, wjob,          \* the worker thread: position and work item
    pc,                 \* position of each caller thread
    startup_timeout,    \* execute_command's local startup_timeout
    future_to_wait_on,  \* wait_for_outputs' local
    timed,              \* wait_for_outputs' timeout is not None
    ret,                \* the latest return or raise of a public method
    polls,              \* one-second sleeps made by the current submit
    done_at_wake,       \* job in flight found finished as the latest sleep ended
    handled,            \* jobs whose completion handler ran, in order
    wiped,              \* reset cleared the outputs after the latest handler
    ncalls,             \* calls made so far
    config,             \* CameraManager._config_map: value and choices
    cam_lock,           \* holder of CameraManager._lock, 0 is unlocked
    cpc,                \* position of each thread inside a CameraManager method
    cop,                \* arguments and locals of that CameraManager method
    cres,               \* what the Commander call made by it returned or raised
    cam_ret,            \* the latest return or raise of a CameraManager method
    ncamops             \* CameraManager calls made so far

vars == <<is_busy, last, current_future, lock, queue, fut, njobs, wpc, wjob,
          pc, startup_timeout, future_to_wait_on, timed, ret, polls,
          done_at_wake,
          handled, wiped, ncalls,
          config, cam_lock, cpc, cop, cres, cam_ret, ncamops>>

commanderVars == <<is_busy, last, current_future>>
executorVars == <<queue, fut, njobs, wpc, wjob>>
localVars == <<startup_timeout, future_to_wait_on, timed, polls, done_at_wake>>
camState == <<config, cam_lock, cpc, cop, cam_ret, ncamops>>

\* ---- values -------------------------------------------------------------
\* the three stored outputs right after __init__ or reset: all None
EmptyResult == [job |-> 0, stdout |-> "None", stderr |-> "None", rc |-> "None"]

\* ---- gphoto2 as the CameraManager drives it -----------------------------
\* the keys of _config_map in insertion order
ConfigKeys ==
    <<"shutter-speed", "iso", "aperture", "manual-focus", "crop", "aspect-ratio">>

\* the model maps NumSettings consecutive entries, the pure action
\* manual-focus among them
FirstSetting == CHOOSE i \in 1..Len(ConfigKeys) : ConfigKeys[i] = "aperture"
SettingOrder == [i \in 1..NumSettings |-> ConfigKeys[FirstSetting + i - 1]]

Settings == {SettingOrder[i] : i \in 1..NumSettings}

\* the names a caller may pass
Names == Settings \cup {"nonexistent"}

\* the values a caller may pass to apply_setting
ApplyValues == {"200", ""}

\* ways a --set-config-value run ends: silently, or with gphoto2's error
\* banner on stderr
SetReturned == {"set_ok", "set_error"}

\* ways a --get-config run ends: the text gphoto2 printed
GetReturned == {"get_range", "get_radio", "get_no_top", "get_bad_step",
                "get_down", "get_radio_none", "get_toggle", "get_nothing",
                "get_error"}

CamOutcomes == SetReturned \cup GetReturned \cup Raised

\* how a run of the given command can end
OutcomesOf(cmd) ==
    CASE cmd = "set" -> SetReturned \cup Raised
      [] cmd = "get" -> GetReturned \cup Raised
      [] OTHER -> Outcomes

\* process.stdout of a run
StdoutOf(k) ==
    CASE k \in {"exit0", "nonzero"} -> "text"
      [] k \in {"set_ok", "set_error", "get_nothing"} -> ""
      [] k = "get_range" -> "doc_range"
      [] k \in {"get_radio", "get_error"} -> "doc_radio"
      [] k = "get_no_top" -> "doc_no_top"
      [] k = "get_bad_step" -> "doc_bad_step"
      [] k = "get_down" -> "doc_down"
      [] k = "get_radio_none" -> "doc_radio_none"
      [] k = "get_toggle" -> "doc_toggle"
      [] k \in Raised -> "None"
      [] OTHER -> k

\* process.stderr of a run
StderrOf(k) ==
    CASE k \in {"exit0", "nonzero"} -> "text"
      [] k \in {"set_error", "get_error"} -> "*** Error ***"
      [] OTHER -> ""

\* process.returncode of a run
ReturnCodeOf(k) ==
    IF k \in {"nonzero", "set_error", "get_error"} THEN "nonzero" ELSE "0"

\* str(e) of the exception _run_command_internal raises, lines 76, 79, 82
MessageOf(k) ==
    CASE k = "TimeoutError" -> "command timed out. Is the camera connected and responsive?"
      [] k = "FileNotFoundError" -> "command not found. Is it installed and in your PATH?"
      [] OTHER -> "An unexpected error occurred during execution"

\* what _run_command_internal returns for job j (stdout, stderr, returncode)
RunResult(j, k) ==
    [job |-> j, stdout |-> StdoutOf(k), stderr |-> StderrOf(k),
     rc |-> ReturnCodeOf(k)]

\* what _update_outputs_on_completion stores for job j with outcome k
StoredResult(j, k) ==
    IF k \notin Raised THEN RunResult(j, k)
    ELSE [job |-> j, stdout |-> "None",
          stderr |-> IF k = "RuntimeError"
                     THEN "Error during command execution: " \o MessageOf(k)
                     ELSE MessageOf(k),
          rc |-> "-1"]

\* a Future not yet made; by is the thread whose execute_command submits it
NoFuture == [state |-> "NONE", outcome |-> "none", callbacks |-> FALSE, cmd |-> "none",
             by |-> 0]
NoReturn == [caller |-> 0, op |-> "none", status |-> "none", val |-> EmptyResult, flag |-> FALSE]

\* ret is the latest return or raise of a public method to a thread that
\* called the Commander directly; a thread inside a CameraManager method
\* keeps what the call gave it in cres
Return(c, o, s, v, f) ==
    /\ ret' = IF cpc[c] = "none"
              THEN [caller |-> c, op |-> o, status |-> s, val |-> v, flag |-> f]
              ELSE ret
    /\ cres' = IF cpc[c] = "none" THEN cres
               ELSE [cres EXCEPT ![c] = [status |-> s, val |-> v]]

\* the locals of a call go away when it returns or raises
Leave(c) ==
    /\ startup_timeout' = [startup_timeout EXCEPT ![c] = 0]
    /\ polls' = [polls EXCEPT ![c] = 0]
    /\ done_at_wake' = [done_at_wake EXCEPT ![c] = 0]
    /\ future_to_wait_on' = [future_to_wait_on EXCEPT ![c] = 0]
    /\ timed' = [timed EXCEPT ![c] = FALSE]

\* the command a thread hands to execute_command: a CameraManager method
\* sets or gets a configuration value, any other caller runs some command
CommandOf(c) ==
    CASE cpc[c] = "apply_exec" -> "set"
      [] cpc[c] = "reload_exec" -> "get"
      [] OTHER -> "cmd"

InExecute(c) == pc[c] \in {"exec_try", "exec_sleep", "exec_submitted", "exec_callback_blocked"}

\* what a thread outside the CameraManager holds
NoOp == [op |-> "none", setting |-> "none", value |-> "", idx |-> 0, passes |-> 0]
NoRes == [status |-> "none", val |-> EmptyResult]
NoCamReturn == [caller |-> 0, op |-> "none", setting |-> "none", status |-> "none",
                value |-> "", choices |-> <<>>]

\* a ConfigEntry right after __init__, lines 26-28
NewEntry == [value |-> "", choices |-> <<>>]

\* the state after Commander() and CameraManager(commander), with room for
\* the jobs in J
Start(J) ==
    /\ is_busy = FALSE
    /\ last = EmptyResult
    /\ current_future = 0
    /\ lock = 0
    /\ queue = <<>>
    /\ fut = [j \in J |-> NoFuture]
    /\ njobs = 0
    /\ wpc = "idle"
    /\ wjob = 0
    /\ pc = [c \in Callers |-> "idle"]
    /\ startup_timeout = [c \in Callers |-> 0]
    /\ future_to_wait_on = [c \in Callers |-> 0]
    /\ timed = [c \in Callers |-> FALSE]
    /\ ret = NoReturn
    /\ polls = [c \in Callers |-> 0]
    /\ done_at_wake = [c \in Callers |-> 0]
    /\ handled = <<>>
    /\ wiped = FALSE
    /\ ncalls = 0
    /\ config = [s \in Settings |-> NewEntry]
    /\ cam_lock = 0
    /\ cpc = [c \in Callers |-> "none"]
    /\ cop = [c \in Callers |-> NoOp]
    /\ cres = [c \in Callers |-> NoRes]
    /\ cam_ret = NoCamReturn
    /\ ncamops = 0

Init == Start(Jobs)

\* ---- execute_command ----------------------------------------------------
\* entry of execute_command(command, startup_timeout=t)
EnterExecute(c, t) ==
    /\ pc[c] = "idle"
    /\ pc' = [pc EXCEPT ![c] = "exec_try"]
    /\ startup_timeout' = [startup_timeout EXCEPT ![c] = t]
    /\ polls' = [polls EXCEPT ![c] = 0]
    /\ UNCHANGED <<commanderVars, executorVars, lock, future_to_wait_on, timed,
                   done_at_wake,
                   ret, cres, handled, wiped>>

CallExecute(c, t) ==
    /\ cpc[c] = "none"
    /\ ncalls < MaxCalls
    /\ njobs + Cardinality({d \in Callers : InExecute(d)}) < MaxJobs
    /\ ncalls' = ncalls + 1
    /\ EnterExecute(c, t)
    /\ UNCHANGED camState

\* line 137 with the comparison off by one
GivesUpStrict(t) == t < 0

\* line 137
GivesUp(t) == t <= 0

\* line 145 left out: the flag keeps its value
MarkBusyForgotten == is_busy

\* line 145
MarkBusy == TRUE

\* one pass of 'while True: with self._lock:' up to the sleep, the raise or
\* the executor.submit
ExecTry(c) ==
    /\ pc[c] = "exec_try"
    /\ lock = 0
    /\ IF is_busy
       THEN IF GivesUp(startup_timeout[c])
            THEN /\ Return(c, "execute", "BusyError", EmptyResult, polls[c] > 0)
                 /\ pc' = [pc EXCEPT ![c] = "idle"]
                 /\ Leave(c)
                 /\ UNCHANGED <<commanderVars, executorVars, lock>>
            ELSE /\ lock' = c
                 /\ pc' = [pc EXCEPT ![c] = "exec_sleep"]
                 /\ UNCHANGED <<commanderVars, executorVars, ret, cres, localVars>>
       ELSE /\ is_busy' = MarkBusy
            /\ njobs' = njobs + 1
            /\ fut' = [fut EXCEPT ![njobs + 1].state = "PENDING",
                                  ![njobs + 1].cmd = CommandOf(c),
                                  ![njobs + 1].by = c]
            /\ queue' = Append(queue, njobs + 1)
            /\ current_future' = njobs + 1
            /\ lock' = c
            /\ pc' = [pc EXCEPT ![c] = "exec_submitted"]
            /\ UNCHANGED <<last, wpc, wjob, ret, cres, localVars>>
    /\ UNCHANGED <<handled, wiped, ncalls>>
    /\ UNCHANGED camState

\* time.sleep(1) returns with the lock still held; 'continue' leaves the
\* with block and the loop comes back to acquire the lock again
ExecWake(c) ==
    /\ pc[c] = "exec_sleep"
    /\ startup_timeout' = [startup_timeout EXCEPT ![c] = @ - 1]
    /\ polls' = [polls EXCEPT ![c] = @ + 1]
    /\ done_at_wake' = [done_at_wake EXCEPT ![c] =
            IF current_future # 0 /\ fut[current_future].state = "FINISHED"
            THEN current_future ELSE 0]
    /\ lock' = 0
    /\ pc' = [pc EXCEPT ![c] = "exec_try"]
    /\ UNCHANGED <<commanderVars, executorVars, future_to_wait_on, timed,
                   ret, cres, handled, wiped, ncalls>>
    /\ UNCHANGED camState

\* add_done_callback, called with the lock held.  On a Future that is
\* already FINISHED it calls _update_outputs_on_completion in this thread,
\* which blocks on the lock this thread holds.
ExecAddCallback(c) ==
    /\ pc[c] = "exec_submitted"
    /\ IF fut[current_future].state = "FINISHED"
       THEN /\ pc' = [pc EXCEPT ![c] = "exec_callback_blocked"]
            /\ UNCHANGED <<fut, lock, ret, cres, localVars>>
       ELSE /\ fut' = [fut EXCEPT ![current_future].callbacks = TRUE]
            /\ lock' = 0
            /\ pc' = [pc EXCEPT ![c] = "idle"]
            /\ Return(c, "execute", "accepted", EmptyResult, FALSE)
            /\ Leave(c)
    /\ UNCHANGED <<commanderVars, queue, njobs, wpc, wjob, handled, wiped, ncalls>>
    /\ UNCHANGED camState

\* ---- the worker thread --------------------------------------------------
WorkerStart ==
    /\ wpc = "idle"
    /\ queue # <<>>
    /\ wjob' = Head(queue)
    /\ queue' = Tail(queue)
    /\ fut' = [fut EXCEPT ![Head(queue)].state = "RUNNING"]
    /\ wpc' = "running"
    /\ UNCHANGED <<commanderVars, lock, njobs, pc, localVars, ret, cres, handled,
                   wiped, ncalls>>
    /\ UNCHANGED camState

\* _run_command_internal returns or raises; Future.set_result/set_exception
\* marks the Future FINISHED, wakes the waiters and then runs the callbacks
\* registered so far
WorkerFinish(k) ==
    /\ wpc = "running"
    /\ fut' = [fut EXCEPT ![wjob].state = "FINISHED", ![wjob].outcome = k]
    /\ wpc' = IF fut[wjob].callbacks THEN "callbacks" ELSE "idle"
    /\ wjob' = IF fut[wjob].callbacks THEN wjob ELSE 0
    /\ UNCHANGED <<commanderVars, lock, queue, njobs, pc, localVars, ret, cres,
                   handled, wiped, ncalls>>
    /\ UNCHANGED camState

\* body of _update_outputs_on_completion(future) under the lock
\* the finally block forgetting line 120
CurrentKept(j) == j

\* line 120: self._current_future = None
CurrentCleared(j) == 0

UpdateOutputs(j) ==
    IF j = current_future
    THEN /\ last' = StoredResult(j, fut[j].outcome)
         /\ is_busy' = FALSE
         /\ current_future' = CurrentCleared(j)
    ELSE UNCHANGED commanderVars

WorkerCallback ==
    /\ wpc = "callbacks"
    /\ lock = 0
    /\ UpdateOutputs(wjob)
    /\ handled' = Append(handled, wjob)
    /\ wiped' = FALSE
    /\ wpc' = "idle"
    /\ wjob' = 0
    /\ UNCHANGED <<lock, queue, fut, njobs, pc, localVars, ret, cres, ncalls>>
    /\ UNCHANGED camState

\* ---- wait_for_outputs ---------------------------------------------------
\* line 174
NoCommandActive == ~is_busy \/ current_future = 0

\* line 175 returning fresh empty outputs instead of the stored ones
IdleWaitReturnEmpty == EmptyResult

\* line 175
IdleWaitReturn == last

\* wait_for_outputs(timeout) up to the return of line 175 or the start of
\* the wait on the captured Future; t says whether a timeout was given
EnterWait(c, t) ==
    /\ pc[c] = "idle"
    /\ lock = 0
    /\ IF NoCommandActive
       THEN /\ Return(c, "wait", "returned", IdleWaitReturn, FALSE)
            /\ UNCHANGED <<pc, future_to_wait_on, timed>>
       ELSE /\ future_to_wait_on' = [future_to_wait_on EXCEPT ![c] = current_future]
            /\ timed' = [timed EXCEPT ![c] = t]
            /\ pc' = [pc EXCEPT ![c] = "waiting"]
            /\ UNCHANGED <<ret, cres>>
    /\ UNCHANGED <<commanderVars, executorVars, lock, startup_timeout, polls,
                   done_at_wake, handled, wiped>>

WaitEnter(c, t) ==
    /\ cpc[c] = "none"
    /\ ncalls < MaxCalls
    /\ ncalls' = ncalls + 1
    /\ EnterWait(c, t)
    /\ UNCHANGED camState

\* future_to_wait_on.result(timeout) on a finished Future: the flag of the
\* return records that the call had blocked on a job
WaitResult(c) ==
    /\ pc[c] = "waiting"
    /\ fut[future_to_wait_on[c]].state = "FINISHED"
    /\ LET j == future_to_wait_on[c]
           k == fut[j].outcome
       IN IF k \notin Raised
          THEN Return(c, "wait", "returned", RunResult(j, k), TRUE)
          ELSE Return(c, "wait", k, [EmptyResult EXCEPT !.job = j], TRUE)
    /\ pc' = [pc EXCEPT ![c] = "idle"]
    /\ Leave(c)
    /\ UNCHANGED <<commanderVars, executorVars, lock, handled, wiped, ncalls>>
    /\ UNCHANGED camState

\* a wait that gives the slot up when it times out
WaitTimeoutCancels(c) ==
    /\ pc[c] = "waiting"
    /\ timed[c]
    /\ fut[future_to_wait_on[c]].state # "FINISHED"
    /\ Return(c, "wait", "WaitTimeout", [EmptyResult EXCEPT !.job = future_to_wait_on[c]], TRUE)
    /\ pc' = [pc EXCEPT ![c] = "idle"]
    /\ Leave(c)
    /\ is_busy' = FALSE
    /\ current_future' = 0
    /\ UNCHANGED <<last, executorVars, lock, handled, wiped, ncalls>>
    /\ UNCHANGED camState

\* future_to_wait_on.result(timeout) gives up: the Future is left alone
WaitTimeout(c) ==
    /\ pc[c] = "waiting"
    /\ timed[c]
    /\ fut[future_to_wait_on[c]].state # "FINISHED"
    /\ Return(c, "wait", "WaitTimeout", [EmptyResult EXCEPT !.job = future_to_wait_on[c]], TRUE)
    /\ pc' = [pc EXCEPT ![c] = "idle"]
    /\ Leave(c)
    /\ UNCHANGED <<commanderVars, executorVars, lock, handled, wiped, ncalls>>
    /\ UNCHANGED camState

\* ---- get_last_outputs, is_command_running, reset, abort -----------------
\* line 211 looking into the Future of the command in flight
PeekValueOfCurrent ==
    IF current_future # 0 /\ fut[current_future].state = "FINISHED"
    THEN StoredResult(current_future, fut[current_future].outcome)
    ELSE last

\* line 211
PeekValue == last

GetLastOutputs(c) ==
    /\ pc[c] = "idle"
    /\ cpc[c] = "none"
    /\ ncalls < MaxCalls
    /\ lock = 0
    /\ ncalls' = ncalls + 1
    /\ Return(c, "peek", "returned", PeekValue, FALSE)
    /\ UNCHANGED <<commanderVars, executorVars, lock, pc, localVars, handled, wiped>>
    /\ UNCHANGED camState

IsCommandRunning(c) ==
    /\ pc[c] = "idle"
    /\ cpc[c] = "none"
    /\ ncalls < MaxCalls
    /\ lock = 0
    /\ ncalls' = ncalls + 1
    /\ Return(c, "busy?", "returned", EmptyResult, is_busy)
    /\ UNCHANGED <<commanderVars, executorVars, lock, pc, localVars, handled, wiped>>
    /\ UNCHANGED camState

\* line 225 without the busy test
ResetAllowedAlways == TRUE

\* line 225
ResetAllowed == ~is_busy

Reset(c) ==
    /\ pc[c] = "idle"
    /\ cpc[c] = "none"
    /\ ncalls < MaxCalls
    /\ lock = 0
    /\ ncalls' = ncalls + 1
    /\ IF ResetAllowed
       THEN /\ last' = EmptyResult
            /\ wiped' = TRUE
            /\ Return(c, "reset", "returned", EmptyResult, FALSE)
       ELSE /\ Return(c, "reset", "BusyError", EmptyResult, FALSE)
            /\ UNCHANGED <<last, wiped>>
    /\ UNCHANGED <<is_busy, current_future, executorVars, lock, pc, localVars,
                   handled>>
    /\ UNCHANGED camState

\* abort takes the lock; when idle it calls reset(), which blocks on the
\* lock this thread holds; when busy 'raise NotImplemented' fails with a
\* TypeError and the with block releases the lock
Abort(c) ==
    /\ pc[c] = "idle"
    /\ cpc[c] = "none"
    /\ ncalls < MaxCalls
    /\ lock = 0
    /\ ncalls' = ncalls + 1
    /\ IF is_busy
       THEN /\ Return(c, "abort", "TypeError", EmptyResult, FALSE)
            /\ UNCHANGED <<lock, pc>>
       ELSE /\ lock' = c
            /\ pc' = [pc EXCEPT ![c] = "abort_reset_blocked"]
            /\ UNCHANGED <<ret, cres>>
    /\ UNCHANGED <<commanderVars, executorVars, localVars, handled, wiped>>
    /\ UNCHANGED camState

\* ---- specification ------------------------------------------------------
CallerStep(c) ==
    \/ \E t \in StartupTimeouts : CallExecute(c, t)
    \/ ExecTry(c)
    \/ ExecWake(c)
    \/ ExecAddCallback(c)
    \/ \E t \in BOOLEAN : WaitEnter(c, t)
    \/ WaitResult(c)
    \/ WaitTimeout(c)
    \/ GetLastOutputs(c)
    \/ IsCommandRunning(c)
    \/ Reset(c)
    \/ Abort(c)

WorkerStep ==
    \/ WorkerStart
    \/ \E k \in Outcomes : WorkerFinish(k)
    \/ WorkerCallback

Next ==
    \/ \E c \in Callers : CallerStep(c)
    \/ WorkerStep

Spec == Init /\ [][Next]_vars

\* threads that can run do run: the worker thread, a sleep that ends, a
\* thread past the lock or waiting for a free lock, a waiter whose Future
\* is done
FairSpec ==
    /\ Spec
    /\ WF_vars(WorkerStart)
    /\ WF_vars(\E k \in Outcomes : WorkerFinish(k))
    /\ WF_vars(WorkerCallback)
    /\ \A c \in Callers : /\ WF_vars(ExecTry(c))
                          /\ WF_vars(ExecWake(c))
                          /\ WF_vars(ExecAddCallback(c))
                          /\ WF_vars(WaitResult(c))

TypeOK ==
    /\ is_busy \in BOOLEAN
    /\ current_future \in 0..MaxJobs
    /\ lock \in {0} \cup Callers
    /\ njobs \in 0..MaxJobs
    /\ wpc \in {"idle", "running", "callbacks"}
    /\ \A c \in Callers : pc[c] \in {"idle", "exec_try", "exec_sleep", "exec_submitted",
                                      "exec_callback_blocked", "waiting",
                                      "abort_reset_blocked"}
\* ---- camera_manager.py: parsing ----------------------------------------
Line(k, v) == [key |-> k, idx |-> -1, val |-> v]
Choice(i, v) == [key |-> "Choice", idx |-> i, val |-> v]

Digit(d) ==
    CASE d = 0 -> "0" [] d = 1 -> "1" [] d = 2 -> "2" [] d = 3 -> "3"
      [] d = 4 -> "4" [] d = 5 -> "5" [] d = 6 -> "6" [] d = 7 -> "7"
      [] d = 8 -> "8" [] d = 9 -> "9"

\* str(i) of an int
RECURSIVE Str(_)
Str(n) ==
    IF n < 0 THEN "-" \o Str(-n)
    ELSE IF n < 10 THEN Digit(n)
    ELSE Str(n \div 10) \o Digit(n % 10)

Numbers == (-MaxNumber)..MaxNumber

\* the text gphoto2 prints for a RANGE widget with the given Current,
\* Bottom, Top and Step, the widget standing at one of its two ends; the
\* text is named after its fields
RangeText(w) ==
    "RANGE " \o Str(w[1]) \o " " \o Str(w[2]) \o " " \o Str(w[3]) \o " " \o Str(w[4])
RangeInputs == {w \in Numbers \X Numbers \X Numbers \X Numbers : w[1] \in {w[2], w[3]}}
RangeNames == {[text |-> RangeText(w), fields |-> w] : w \in RangeInputs}
RangeTexts == {n.text : n \in RangeNames}
RangeFieldsOf(text) == (CHOOSE n \in RangeNames : n.text = text).fields
RangeLines(w) ==
    <<Line("Label", "Focus"), Line("Type", "RANGE"), Line("Current", Str(w[1])),
      Line("Bottom", Str(w[2])), Line("Top", Str(w[3])), Line("Step", Str(w[4]))>>

\* the text gphoto2 prints for a RADIO widget with the given Current and
\* the given labels, numbered from 0; a label may be blank
RadioLabels == {"1/125", "100", ""}
RECURSIVE Joined(_)
Joined(labels) ==
    IF labels = <<>> THEN "" ELSE "|" \o Head(labels) \o Joined(Tail(labels))
RadioText(cur, labels) == "RADIO " \o cur \o Joined(labels)
RadioInputs ==
    {<<cur, labels>> : cur \in RadioLabels,
                       labels \in UNION {[1..n -> RadioLabels] : n \in 0..MaxChoices}}
RadioNames == {[text |-> RadioText(w[1], w[2]), fields |-> w] : w \in RadioInputs}
RadioTexts == {n.text : n \in RadioNames}
RadioFieldsOf(text) == (CHOOSE n \in RadioNames : n.text = text).fields
RadioLines(w) ==
    <<Line("Label", "Speed"), Line("Type", "RADIO"), Line("Current", w[1])>>
    \o [i \in 1..Len(w[2]) |-> Choice(i - 1, w[2][i])]

\* the lines of each text gphoto2 --get-config prints in the model
Lines(text) ==
    CASE text = "doc_range" ->
            <<Line("Label", "Focus"), Line("Type", "RANGE"), Line("Current", "2"),
              Line("Bottom", "1"), Line("Top", "3"), Line("Step", "1")>>
      [] text = "doc_no_top" ->
            <<Line("Label", "Focus"), Line("Type", "RANGE"), Line("Current", "2"),
              Line("Bottom", "1"), Line("Step", "1")>>
      [] text = "doc_bad_step" ->
            <<Line("Label", "Focus"), Line("Type", "RANGE"), Line("Current", "2"),
              Line("Bottom", "1"), Line("Top", "3"), Line("Step", "0.5")>>
      [] text = "doc_down" ->
            <<Line("Label", "Focus"), Line("Type", "RANGE"), Line("Current", "2"),
              Line("Bottom", "3"), Line("Top", "1"), Line("Step", "1")>>
      [] text = "doc_radio" ->
            <<Line("Label", "Speed"), Line("Type", "RADIO"), Line("Current", "1/125"),
              Choice(0, "1/125"), Choice(1, "1/250")>>
      [] text = "doc_radio_none" ->
            <<Line("Label", "Speed"), Line("Type", "RADIO"), Line("Current", "1/125")>>
      [] text = "doc_toggle" ->
            <<Line("Label", "Drive"), Line("Type", "TOGGLE"), Line("Current", "2")>>
      [] text \in RangeTexts ->
            RangeLines(RangeFieldsOf(text))
      [] text \in RadioTexts ->
            RadioLines(RadioFieldsOf(text))
      [] OTHER -> <<>>

\* int(s) succeeds on the decimal numerals and raises ValueError otherwise
IsInt(s) == \E n \in Numbers : Str(n) = s
IntOf(s) == CHOOSE n \in Numbers : Str(n) = s

\* list(range(b, e, s)) for s # 0
RECURSIVE RangeSeq(_, _, _)
RangeSeq(b, e, s) ==
    IF (s > 0 /\ b >= e) \/ (s < 0 /\ b <= e) THEN <<>>
    ELSE <<b>> \o RangeSeq(b + s, e, s)

\* the text of a line as printed
TextOf(l) ==
    l.key \o ": " \o (IF l.idx >= 0 THEN Str(l.idx) \o " " ELSE "") \o l.val

\* parse_value(text, key): re.search(rf"{key}:\s*(.*)") takes the first line
\* with the key; \s* runs over the line end of a blank value, so the group
\* then is the whole next line
Hits(ls, key) == {i \in 1..Len(ls) : ls[i].key = key}
FirstOf(hits) == CHOOSE h \in hits : \A g \in hits : h <= g
GroupAt(ls, i) ==
    IF ls[i].val # "" THEN ls[i].val
    ELSE IF i < Len(ls) THEN TextOf(ls[i + 1])
    ELSE ""
SearchIn(ls, key) ==
    IF Hits(ls, key) = {} THEN "None" ELSE GroupAt(ls, FirstOf(Hits(ls, key)))

parse_value(text, key) == SearchIn(Lines(text), key)

\* re.findall(r"Choice:\s*\d+\s*(.*)", stdout): the label of every Choice
\* line in order, without its number; after the number \s* runs over the
\* line end of a blank label, so the group then is the whole next line,
\* which the scan has then passed
RECURSIVE ChoicesIn(_)
ChoicesIn(ls) ==
    IF ls = <<>> THEN <<>>
    ELSE IF Head(ls).key # "Choice" THEN ChoicesIn(Tail(ls))
    ELSE IF Head(ls).val # "" THEN <<[value |-> Head(ls).val]>> \o ChoicesIn(Tail(ls))
    ELSE IF Len(ls) = 1 THEN <<[value |-> ""]>>
    ELSE <<[value |-> TextOf(ls[2])]>> \o ChoicesIn(Tail(Tail(ls)))

\* a str that is None or empty is false
Falsy(s) == s \in {"None", ""}

\* str.lower() on the stderr texts of the model
Lower(s) ==
    CASE s = "*** Error ***" -> "*** error ***"
      [] s = "command timed out. Is the camera connected and responsive?"
            -> "command timed out. is the camera connected and responsive?"
      [] s = "command not found. Is it installed and in your PATH?"
            -> "command not found. is it installed and in your path?"
      [] s = "Error during command execution: An unexpected error occurred during execution"
            -> "error during command execution: an unexpected error occurred during execution"
      [] OTHER -> s

\* "error" in s, on the same texts
ContainsError(s) ==
    s \in {"*** error ***",
           "Error during command execution: An unexpected error occurred during execution",
           "error during command execution: an unexpected error occurred during execution"}

\* lines 49 and 65 comparing without lower()
HasErrorMarkerExact(stderr) == ~Falsy(stderr) /\ ContainsError(stderr)

\* lines 49 and 65: stderr and "error" in stderr.lower()
HasErrorMarker(stderr) == ~Falsy(stderr) /\ ContainsError(Lower(stderr))

Parsed(st, v, ch) == [status |-> st, value |-> v, choices |-> ch]

\* line 77: [{"value": str(i)} for i in range(...)]
ChoicesOf(r) == [i \in 1..Len(r) |-> [value |-> Str(r[i])]]

\* line 77 stopping one short of Top
RangeEndExclusive(top) == top

\* line 77: the end of range() is int(top)+1
RangeEnd(top) == top + 1

\* lines 75-77 on the three fields of a RANGE response
RangeChoices(value, bottom, top, step) ==
    IF bottom = "None" \/ top = "None" \/ step = "None"
    THEN Parsed("CameraReadError", value, <<>>)
    ELSE IF ~IsInt(bottom) \/ ~IsInt(top) \/ ~IsInt(step) \/ IntOf(step) = 0
    THEN Parsed("ValueError", value, <<>>)
    ELSE Parsed("ok", value,
                ChoicesOf(RangeSeq(IntOf(bottom), RangeEnd(IntOf(top)), IntOf(step))))

\* lines 71-77: the choices of a RANGE response
ParseRange(stdout, value) ==
    RangeChoices(value, parse_value(stdout, "Bottom"),
                 parse_value(stdout, "Top"), parse_value(stdout, "Step"))

\* line 84 left out
NoChoicesNever(choices) == FALSE

\* line 84: not choices
NoChoices(choices) == choices = <<>>

\* lines 65-85: one response of --get-config turned into value and choices
\* lines 71-82: the branch on the Type of the response
ParseTyped(stdout, value, choice_type) ==
    IF choice_type = "RANGE" THEN ParseRange(stdout, value)
    ELSE IF choice_type = "RADIO"
    THEN Parsed("ok", value, ChoicesIn(Lines(stdout)))
    ELSE Parsed("CameraReadError", value, <<>>)

\* lines 84-85
CheckChoices(p) ==
    IF p.status = "ok" /\ NoChoices(p.choices)
    THEN Parsed("CameraReadError", p.value, <<>>)
    ELSE p

ParseResponse(r) ==
    IF Falsy(r.stdout) \/ HasErrorMarker(r.stderr)
    THEN Parsed("CameraReadError", "None", <<>>)
    ELSE CheckChoices(ParseTyped(r.stdout, parse_value(r.stdout, "Current"),
                                 parse_value(r.stdout, "Type")))

\* ---- camera_manager.py: apply_setting, reload_camera, read_setting ------
CamJobs == 1..(MaxCamOps * NumSettings)
CamCallers == 1..NumCamCallers

\* everything of the Commander that a step outside its methods leaves alone
commanderState == <<commanderVars, executorVars, lock, pc, localVars, ret,
                    handled, wiped>>

CamReturn(c, o, s, st, v, ch) ==
    cam_ret' = [caller |-> c, op |-> o, setting |-> s, status |-> st,
                value |-> v, choices |-> ch]

\* the thread leaves the CameraManager method
CamLeave(c) ==
    /\ cpc' = [cpc EXCEPT ![c] = "none"]
    /\ cop' = [cop EXCEPT ![c] = NoOp]
    /\ cres' = [cres EXCEPT ![c] = NoRes]

\* line 44 is outside any try: the lookup of a missing key raises KeyError
ApplyUnknown == "KeyError"

\* apply_setting(setting, value) up to the call of execute_command
CamApplyCall(c, s, v) ==
    /\ cpc[c] = "none"
    /\ pc[c] = "idle"
    /\ ncamops < MaxCamOps
    /\ ncamops' = ncamops + 1
    /\ IF s \notin Settings
       THEN /\ CamReturn(c, "apply", s, ApplyUnknown, "", <<>>)
            /\ UNCHANGED <<commanderState, cres, cpc, cop>>
       ELSE /\ EnterExecute(c, CamStartupTimeout)
            /\ cpc' = [cpc EXCEPT ![c] = "apply_exec"]
            /\ cop' = [cop EXCEPT ![c] = [NoOp EXCEPT !.op = "apply",
                                                !.setting = s, !.value = v]]
            /\ cam_ret' = NoCamReturn
    /\ UNCHANGED <<config, cam_lock, ncalls>>

\* execute_command has returned or raised: BusyError leaves apply_setting,
\* otherwise line 48 calls wait_for_outputs(timeout=20)
CamApplySubmitted(c) ==
    /\ cpc[c] = "apply_exec"
    /\ pc[c] = "idle"
    /\ IF cres[c].status = "accepted"
       THEN /\ EnterWait(c, TRUE)
            /\ cpc' = [cpc EXCEPT ![c] = "apply_wait"]
            /\ UNCHANGED <<cop, cam_ret>>
       ELSE /\ CamReturn(c, "apply", cop[c].setting, cres[c].status, "", <<>>)
            /\ CamLeave(c)
            /\ UNCHANGED commanderState
    /\ UNCHANGED <<config, cam_lock, ncalls, ncamops>>

\* line 51
IsPureAction(s) == s = "manual-focus"

\* lines 48-53 after wait_for_outputs has returned or raised
CamApplyFinish(c) ==
    /\ cpc[c] = "apply_wait"
    /\ pc[c] = "idle"
    /\ LET r == cres[c]
           s == cop[c].setting
       IN IF r.status # "returned"
          THEN /\ CamReturn(c, "apply", s, r.status, "", <<>>)
               /\ UNCHANGED config
          ELSE IF HasErrorMarker(r.val.stderr)
          THEN /\ CamReturn(c, "apply", s, "CameraWriteError", r.val.stderr, <<>>)
               /\ UNCHANGED config
          ELSE /\ CamReturn(c, "apply", s, "returned", cop[c].value, <<>>)
               /\ config' = IF IsPureAction(s) THEN config
                            ELSE [config EXCEPT ![s].value = cop[c].value]
    /\ CamLeave(c)
    /\ UNCHANGED <<commanderState, cam_lock, ncalls, ncamops>>

\* reload_camera() up to 'with self._lock'
CamReloadCall(c) ==
    /\ cpc[c] = "none"
    /\ pc[c] = "idle"
    /\ ncamops < MaxCamOps
    /\ ncamops' = ncamops + 1
    /\ cpc' = [cpc EXCEPT ![c] = "reload_lock"]
    /\ cop' = [cop EXCEPT ![c] = [NoOp EXCEPT !.op = "reload"]]
    /\ cam_ret' = NoCamReturn
    /\ UNCHANGED <<commanderState, cres, config, cam_lock, ncalls>>

\* a 'with' that enters without the lock being free
ReloadLockFreeAlways == TRUE

\* line 57: 'with self._lock' enters when no thread holds the lock
ReloadLockFree == cam_lock = 0

\* the lock is taken and the loop submits --get-config for the first entry
CamReloadAcquire(c) ==
    /\ cpc[c] = "reload_lock"
    /\ ReloadLockFree
    /\ cam_lock' = c
    /\ EnterExecute(c, CamStartupTimeout)
    /\ cpc' = [cpc EXCEPT ![c] = "reload_exec"]
    /\ cop' = [cop EXCEPT ![c].idx = 1, ![c].passes = @ + 1]
    /\ UNCHANGED <<config, cam_ret, ncalls, ncamops>>

\* an exception that leaves the with block without releasing its lock
LockKeptOnRaise(c) == c

\* line 57: an exception leaves 'with self._lock' through __exit__, which
\* releases the lock
LockAfterRaise(c) == 0

\* how a method that called reload_camera goes on when it raises: both
\* reload_camera and read_setting let the exception through
CamRaise(c, st) ==
    /\ CamReturn(c, cop[c].op, cop[c].setting, st, "", <<>>)
    /\ CamLeave(c)
    /\ cam_lock' = LockAfterRaise(c)

\* execute_command has returned or raised inside the loop: BusyError leaves
\* reload_camera, otherwise line 64 calls wait_for_outputs(timeout=10)
CamReloadSubmitted(c) ==
    /\ cpc[c] = "reload_exec"
    /\ pc[c] = "idle"
    /\ IF cres[c].status = "accepted"
       THEN /\ EnterWait(c, TRUE)
            /\ cpc' = [cpc EXCEPT ![c] = "reload_wait"]
            /\ UNCHANGED <<cop, cam_ret, cam_lock>>
       ELSE /\ CamRaise(c, cres[c].status)
            /\ UNCHANGED commanderState
    /\ UNCHANGED <<config, ncalls, ncamops>>

\* a failed entry dropping what the cache held for it
OnReadFailureForget(k) == [config EXCEPT ![k] = NewEntry]

\* the raise statements of lines 66, 76, 82, 85 and a failing int() or
\* range() of line 77 leave _config_map alone
OnReadFailure(k) == config

\* the for loop of line 58 ends after the last entry of _config_map
LastEntry(i) == i >= NumSettings

\* lines 64-87 after wait_for_outputs has returned or raised: the entry is
\* parsed and written, then the loop submits the next --get-config or ends
CamReloadParse(c) ==
    /\ cpc[c] = "reload_wait"
    /\ pc[c] = "idle"
    /\ \E p \in {ParseResponse(cres[c].val)} :
       LET r == cres[c]
           i == cop[c].idx
           k == SettingOrder[i]
           \* a read_setting remembers what the pass loaded for its setting
           loaded == IF cop[c].op = "read" /\ k = cop[c].setting
                     THEN p.value ELSE cop[c].value
       IN IF r.status # "returned"
          THEN /\ CamRaise(c, r.status)
               /\ UNCHANGED <<commanderState, config>>
          ELSE IF p.status # "ok"
          THEN /\ CamRaise(c, p.status)
               /\ config' = OnReadFailure(k)
               /\ UNCHANGED commanderState
          ELSE /\ config' = [config EXCEPT ![k] = [value |-> p.value,
                                                    choices |-> p.choices]]
               /\ IF ~LastEntry(i)
                  THEN /\ EnterExecute(c, CamStartupTimeout)
                       /\ cpc' = [cpc EXCEPT ![c] = "reload_exec"]
                       /\ cop' = [cop EXCEPT ![c].idx = i + 1, ![c].value = loaded]
                       /\ UNCHANGED <<cam_lock, cam_ret>>
                  ELSE /\ cam_lock' = 0
                       /\ IF cop[c].op = "read"
                          THEN /\ cpc' = [cpc EXCEPT ![c] = "read_return"]
                               /\ cres' = [cres EXCEPT ![c] = NoRes]
                               /\ cop' = [cop EXCEPT ![c].value = loaded]
                               /\ UNCHANGED cam_ret
                          ELSE /\ CamReturn(c, "reload", "none", "returned", "", <<>>)
                               /\ CamLeave(c)
                       /\ UNCHANGED commanderState
    /\ UNCHANGED <<ncalls, ncamops>>

\* line 91 reloading on every read
NeedsReloadAlways(s) == TRUE

\* line 91
NeedsReload(s) == config[s].value = ""

\* line 97 letting the KeyError through
ReadUnknownRaw == "KeyError"

\* lines 96-97
ReadUnknown == "CameraUnknownSettingError"

\* read_setting(setting) up to its return or the call of reload_camera
CamReadCall(c, s) ==
    /\ cpc[c] = "none"
    /\ pc[c] = "idle"
    /\ ncamops < MaxCamOps
    /\ ncamops' = ncamops + 1
    /\ IF s \notin Settings
       THEN /\ CamReturn(c, "read", s, ReadUnknown, "", <<>>)
            /\ UNCHANGED <<cpc, cop>>
       ELSE IF NeedsReload(s)
       THEN /\ cpc' = [cpc EXCEPT ![c] = "reload_lock"]
            /\ cop' = [cop EXCEPT ![c] = [NoOp EXCEPT !.op = "read", !.setting = s]]
            /\ cam_ret' = NoCamReturn
       ELSE /\ CamReturn(c, "read", s, "returned", config[s].value, config[s].choices)
            /\ UNCHANGED <<cpc, cop>>
    /\ UNCHANGED <<commanderState, cres, config, cam_lock, ncalls>>

\* lines 93-95 after reload_camera has returned
CamReadReturn(c) ==
    /\ cpc[c] = "read_return"
    /\ LET s == cop[c].setting
       IN CamReturn(c, "read", s, "returned", config[s].value, config[s].choices)
    /\ CamLeave(c)
    /\ UNCHANGED <<commanderState, config, cam_lock, ncalls, ncamops>>

CamStep(c) ==
    \/ \E s \in Names, v \in ApplyValues : CamApplyCall(c, s, v)
    \/ CamApplySubmitted(c)
    \/ CamApplyFinish(c)
    \/ CamReloadCall(c)
    \/ CamReloadAcquire(c)
    \/ CamReloadSubmitted(c)
    \/ CamReloadParse(c)
    \/ \E s \in Names : CamReadCall(c, s)
    \/ CamReadReturn(c)
    \/ ExecTry(c)
    \/ ExecWake(c)
    \/ ExecAddCallback(c)
    \/ WaitResult(c)
    \/ WaitTimeout(c)

\* the worker thread running gphoto2
CamWorkerStep ==
    \/ WorkerStart
    \/ /\ wpc = "running"
       /\ \E k \in OutcomesOf(fut[wjob].cmd) : WorkerFinish(k)
    \/ WorkerCallback

CamInit == Start(CamJobs)

CamNext ==
    \/ \E c \in CamCallers : CamStep(c)
    \/ CamWorkerStep

CamSpec == CamInit /\ [][CamNext]_vars

\* ---- two threads using one CameraManager while gphoto2 answers every
\* command at once and well

RaceOutcomesOf(cmd) ==
    CASE cmd = "set" -> {"set_ok"}
      [] cmd = "get" -> {"get_range", "get_radio"}
      [] OTHER -> {"exit0"}

RaceStep(c) ==
    \/ \E s \in Settings : CamApplyCall(c, s, "200")
    \/ CamApplySubmitted(c)
    \/ CamApplyFinish(c)
    \/ CamReloadCall(c)
    \/ CamReloadAcquire(c)
    \/ CamReloadSubmitted(c)
    \/ CamReloadParse(c)
    \/ \E s \in Settings : CamReadCall(c, s)
    \/ CamReadReturn(c)
    \/ ExecTry(c)
    \/ ExecWake(c)
    \/ ExecAddCallback(c)
    \/ WaitResult(c)
    \/ WaitTimeout(c)

RaceWorkerStep ==
    \/ WorkerStart
    \/ /\ wpc = "running"
       /\ \E k \in RaceOutcomesOf(fut[wjob].cmd) : WorkerFinish(k)
    \/ WorkerCallback

RaceInit == Start(CamJobs)

RaceNext ==
    \/ \E c \in Callers : RaceStep(c)
    \/ RaceWorkerStep

RaceSpec == RaceInit /\ [][RaceNext]_vars

\* ---- parsing on its own: reload_camera right after wait_for_outputs has
\* given it the text of its first --get-config job

GetTexts == RangeTexts \cup RadioTexts

\* the state in which thread c, inside reload_camera and holding its lock,
\* has got the outcome k of job 1 back from wait_for_outputs
Waited(c, k) ==
    /\ is_busy = FALSE
    /\ last = StoredResult(1, k)
    /\ current_future = 0
    /\ lock = 0
    /\ queue = <<>>
    /\ fut = [j \in CamJobs |->
                IF j = 1 THEN [state |-> "FINISHED", outcome |-> k,
                               callbacks |-> TRUE, cmd |-> "get", by |-> c]
                ELSE NoFuture]
    /\ njobs = 1
    /\ wpc = "idle"
    /\ wjob = 0
    /\ pc = [d \in Callers |-> "idle"]
    /\ startup_timeout = [d \in Callers |-> 0]
    /\ future_to_wait_on = [d \in Callers |-> 0]
    /\ timed = [d \in Callers |-> FALSE]
    /\ ret = NoReturn
    /\ polls = [d \in Callers |-> 0]
    /\ done_at_wake = [d \in Callers |-> 0]
    /\ handled = <<1>>
    /\ wiped = FALSE
    /\ ncalls = 0
    /\ config = [s \in Settings |-> NewEntry]
    /\ cam_lock = c
    /\ cpc = [d \in Callers |-> IF d = c THEN "reload_wait" ELSE "none"]
    /\ cop = [d \in Callers |->
                IF d = c THEN [NoOp EXCEPT !.op = "reload", !.idx = 1, !.passes = 1]
                ELSE NoOp]
    /\ cres = [d \in Callers |->
                 IF d = c THEN [status |-> "returned", val |-> StoredResult(1, k)]
                 ELSE NoRes]
    /\ cam_ret = NoCamReturn
    /\ ncamops = 1

ParseInit == \E k \in GetTexts : Waited(1, k)

ParseNext == \E c \in CamCallers : CamReloadParse(c)

ParseSpec == ParseInit /\ [][ParseNext]_vars

\* ---- properties ---------------------------------------------------------
Range(q) == {q[i] : i \in 1..Len(q)}

Handled(j) == j \in Range(handled)

\* jobs accepted by execute_command whose completion handler has not run
InFlight == {j \in Jobs : fut[j].state # "NONE" /\ ~Handled(j)}

\* C1: at most one job is in flight in every reachable state: no submission
\* is accepted while an accepted job still awaits the worker or its
\* completion handler.
AtMostOneInFlight == Cardinality(InFlight) <= 1

\* a second job was accepted after the first completed
SecondJobAccepted == njobs = 2 /\ Len(handled) = 1 /\ Cardinality(InFlight) = 1

\* C2: a submit called with startup_timeout <= 0 that finds the executor
\* busy raises BusyError at that first check, having slept for no poll, and
\* leaves the busy flag, the job in flight and the stored outputs as they
\* were.
BusyWithoutPolling ==
    [][\A c \in Callers :
        (ExecTry(c) /\ is_busy /\ startup_timeout[c] + polls[c] <= 0)
        => /\ polls[c] = 0
           /\ pc'[c] = "idle"
           /\ ret'.caller = c /\ ret'.op = "execute" /\ ret'.status = "BusyError"
           /\ lock' = 0
           /\ UNCHANGED <<is_busy, current_future, last, fut, queue>>]_vars

\* a submit was refused without any poll while a job was in flight
RefusedAtFirstCheck ==
    /\ ret.op = "execute" /\ ret.status = "BusyError" /\ ~ret.flag
    /\ is_busy /\ current_future # 0

\* C3: a submit with startup_timeout T > 0 that has polled raises BusyError
\* only if the job in flight was still running when its last poll elapsed;
\* a job that finished during the polls lets the submission in.
BusyOnlyWhileJobRuns ==
    [][\A c \in Callers :
        (ExecTry(c) /\ polls[c] > 0 /\ pc'[c] = "idle")
        => current_future # 0 /\ current_future # done_at_wake[c]]_vars

\* C4: every job accepted by execute_command is eventually taken through
\* the completion handler, which stores its outcome and clears the busy
\* flag, whatever the outcome and however early the job finishes.
EveryJobCompletes ==
    \A j \in Jobs : (fut[j].state # "NONE") ~> Handled(j)

\* C5: a submit that found the executor idle and handed its job to the
\* worker returns to its caller.
AcceptedSubmitReturns ==
    \A c \in Callers : (pc[c] = "exec_submitted") ~> (pc[c] = "idle")

\* C6: when wait_for_outputs returns the result of the job it had blocked
\* on, the completion handler of that job has already run: the result is
\* stored and the busy flag cleared.
WaitReturnsAfterHandler ==
    [][\A c \in Callers :
        WaitResult(c) => Handled(future_to_wait_on[c])]_vars

\* the outputs that the latest completion handler or reset left
ExpectedLast ==
    IF handled = <<>> \/ wiped THEN EmptyResult
    ELSE StoredResult(handled[Len(handled)], fut[handled[Len(handled)]].outcome)

\* C7: wait_for_outputs called with no job in flight returns the stored
\* outputs at once, never blocking on a Future; they are the all-None
\* outputs when no job has completed since construction or the last reset.
IdleWaitReturnsLast ==
    [][\A c \in Callers : \A t \in BOOLEAN :
        (WaitEnter(c, t) /\ InFlight = {})
        => /\ pc'[c] = "idle"
           /\ ret' = [caller |-> c, op |-> "wait", status |-> "returned",
                      val |-> last, flag |-> FALSE]
           /\ (handled = <<>> \/ wiped) => ret'.val = EmptyResult]_vars

\* a wait with no job in flight returned the outputs of a completed job
IdleWaitGotStored ==
    /\ ret.op = "wait" /\ ret.status = "returned" /\ ~ret.flag
    /\ ret.val.job # 0 /\ ret.val = last
    /\ InFlight = {}

\* C8: get_last_outputs returns the outputs of the most recently completed
\* job (all None when none completed since construction or reset): with a
\* job in flight it still returns what was stored before that job, never
\* outputs of a job whose completion handler has not run.
PeekReturnsLastCompleted ==
    [][\A c \in Callers :
        GetLastOutputs(c)
        => /\ ret'.caller = c /\ ret'.op = "peek"
           /\ ret'.val = ExpectedLast
           /\ ret'.val.job \notin InFlight]_vars

\* a peek made while a job was in flight returned the previous job's outputs
PeekLagsBehind ==
    /\ ret.op = "peek"
    /\ ret.val.job # 0 /\ ret.val.job # current_future
    /\ is_busy /\ current_future \in InFlight

TimedOutOn(j) == ret.op = "wait" /\ ret.status = "WaitTimeout" /\ ret.val.job = j

\* C9: after a wait_for_outputs that timed out on a job, the executor
\* stays busy with that same job until its completion handler runs, and
\* the handler does run, storing the outputs and clearing the busy flag,
\* with no further call from anyone.
TimedOutJobStillCompletes ==
    /\ [](\A j \in Jobs :
            TimedOutOn(j) =>
                \/ ~Handled(j) /\ is_busy /\ current_future = j
                \/ Handled(j) /\ current_future # j /\ last = ExpectedLast)
    /\ \A j \in Jobs : TimedOutOn(j) ~> (Handled(j) /\ current_future # j)

\* a wait timed out and the job then completed with nobody calling again
TimedOutThenCompleted ==
    \E j \in Jobs : /\ TimedOutOn(j) /\ Handled(j)
                    /\ last = StoredResult(j, fut[j].outcome) /\ ~is_busy

\* C10: get_last_outputs and is_command_running never block: while the
\* other callers are idle, blocked on a job or polling for admission, a
\* call of either can complete at once.
PeekAndBusyNeverBlock ==
    \A c \in Callers :
        (/\ pc[c] = "idle"
         /\ ncalls < MaxCalls
         /\ \A d \in Callers : pc[d] \in {"idle", "waiting", "exec_try", "exec_sleep"})
        => ENABLED GetLastOutputs(c) /\ ENABLED IsCommandRunning(c)
\* C11: abort called with no job in flight behaves as reset: it clears
\* the stored outputs, returns to its caller and leaves the lock free, so
\* the executor stays usable.
AbortIdleResets ==
    [][\A c \in Callers :
        (Abort(c) /\ InFlight = {})
        => /\ last' = EmptyResult
           /\ pc'[c] = "idle"
           /\ lock' = 0
           /\ ret'.caller = c /\ ret'.op = "abort" /\ ret'.status = "returned"]_vars

\* C12: abort called with a job in flight is carried out: the call
\* returns normally and the pending result of that job is resolved to
\* Aborted.
AbortBusyCancels ==
    [][\A c \in Callers :
        (Abort(c) /\ InFlight # {})
        => /\ ret'.caller = c /\ ret'.op = "abort" /\ ret'.status = "returned"
           /\ \A j \in InFlight : fut'[j].outcome = "Aborted"]_vars

\* C13: reset clears the stored outputs when no job is in flight; with a
\* job in flight it raises BusyError and leaves the stored outputs, the
\* busy flag and the job in flight as they were.
ResetClearsOnlyWhenIdle ==
    [][\A c \in Callers :
        Reset(c)
        => /\ ret'.caller = c /\ ret'.op = "reset"
           /\ IF InFlight = {}
              THEN last' = EmptyResult /\ ret'.status = "returned"
              ELSE /\ ret'.status = "BusyError"
                   /\ UNCHANGED <<last, is_busy, current_future, fut, queue>>]_vars

\* a reset was refused while a job was in flight and older outputs were stored
ResetRefusedWhileBusy ==
    /\ ret.op = "reset" /\ ret.status = "BusyError"
    /\ InFlight # {} /\ last # EmptyResult

\* ---- properties of the CameraManager ------------------------------------
\* the stderr texts of the model that hold the word "error" in any case
ErrorTexts ==
    {"*** Error ***",
     "Error during command execution: An unexpected error occurred during execution"}

\* the call of thread c has ended with an exception
CamFailed(c) ==
    /\ cpc[c] = "none"
    /\ cam_ret.caller = c
    /\ cam_ret.status \notin {"none", "returned"}

\* C14: apply_setting with a name that _config_map does not hold raises
\* CameraUnknownSettingError and does nothing to the device: no job is
\* submitted, and executor state and cache stay as they were.
ApplyUnknownRejected ==
    [][\A c \in CamCallers, v \in ApplyValues :
        CamApplyCall(c, "nonexistent", v)
        => /\ cam_ret'.status = "CameraUnknownSettingError"
           /\ UNCHANGED <<commanderVars, executorVars, config>>]_vars

\* C15: read_setting with a name that _config_map does not hold raises
\* CameraUnknownSettingError at once: the thread does not enter
\* reload_camera, no job is submitted, executor and cache stay as they were.
ReadUnknownRejected ==
    [][\A c \in CamCallers :
        CamReadCall(c, "nonexistent")
        => /\ cam_ret'.caller = c /\ cam_ret'.op = "read"
           /\ cam_ret'.status = "CameraUnknownSettingError"
           /\ cpc'[c] = "none"
           /\ UNCHANGED <<commanderVars, executorVars, config, cam_lock>>]_vars

\* an unknown name was read on a store that was never loaded, and nothing
\* was loaded or submitted for it
ReadUnknownOnFreshStore ==
    /\ cam_ret.op = "read" /\ cam_ret.setting = "nonexistent"
    /\ cam_ret.status = "CameraUnknownSettingError"
    /\ ncamops = 1 /\ njobs = 0
    /\ \A s \in Settings : config[s] = NewEntry

\* C16: when wait_for_outputs hands apply_setting a result, a stderr that
\* holds "error" in any case makes it raise CameraWriteError and leaves the
\* cache alone; any other stderr makes the cached value of the setting the
\* applied value, except for manual-focus, whose entry stays as it was.
ApplyWritesUnlessError ==
    [][\A c \in CamCallers :
        (CamApplyFinish(c) /\ cres[c].status = "returned")
        => LET s == cop[c].setting
               v == cop[c].value
           IN IF cres[c].val.stderr \in ErrorTexts
              THEN /\ cam_ret'.status = "CameraWriteError"
                   /\ config' = config
              ELSE /\ cam_ret'.status = "returned"
                   /\ config' = IF s = "manual-focus" THEN config
                                ELSE [config EXCEPT ![s].value = v]]_vars

\* gphoto2's banner, with a capital E, made an apply fail after an earlier
\* apply had cached "200", which is still there
ApplyRefusedKeepsValue ==
    /\ cam_ret.op = "apply" /\ cam_ret.status = "CameraWriteError"
    /\ cam_ret.value = "*** Error ***"
    /\ cam_ret.setting \in Settings
    /\ config[cam_ret.setting].value = "200"

\* C17: a step of a reload pass writes no entry but the one it is at, and
\* the step on which the pass fails writes nothing at all, submits no job
\* and leaves reload_camera: the entries before the failing one keep what
\* the pass wrote, the failing one and those after it keep what they held,
\* and no --get-config is submitted for those after it.
ReloadStopsAtFailure ==
    [][\A c \in CamCallers :
        (CamReloadSubmitted(c) \/ CamReloadParse(c))
        => /\ \A i \in 1..NumSettings :
                i # cop[c].idx => config'[SettingOrder[i]] = config[SettingOrder[i]]
           /\ CamFailed(c)'
              => /\ config' = config
                 /\ cam_lock' = 0
                 /\ UNCHANGED <<njobs, queue, fut>>]_vars

\* a pass on a fresh store failed on its second entry, whose RANGE text has
\* no Top: the first entry is loaded, the others are as before and only two
\* jobs were submitted
SecondEntryFailed ==
    /\ cam_ret.op = "reload" /\ cam_ret.status = "CameraReadError"
    /\ ncamops = 1 /\ njobs = 2
    /\ fut[2].outcome = "get_no_top"
    /\ config[SettingOrder[1]].choices # <<>>
    /\ \A i \in 2..NumSettings : config[SettingOrder[i]] = NewEntry

\* C18: read_setting of a mapped setting whose cached value is "" goes
\* through one reload pass, which writes every entry and loads a value for
\* the setting, and returns the cached value (not "", unless another thread
\* has applied "" since) and a non-empty choice list; read_setting of a
\* setting whose cached value is not "" returns the cached pair at once,
\* without a pass and without a job.
ReadReloadsOnlyWhenUnloaded ==
    [][\A c \in CamCallers :
        /\ \A s \in Settings :
              CamReadCall(c, s)
              => IF config[s].value = ""
                 THEN cpc'[c] = "reload_lock" /\ cop'[c].passes = 0
                 ELSE /\ cpc'[c] = "none"
                      /\ cam_ret'.status = "returned"
                      /\ cam_ret'.value = config[s].value
                      /\ cam_ret'.choices = config[s].choices
                      /\ UNCHANGED <<commanderVars, executorVars, config, cam_lock>>
        /\ CamReadReturn(c)
              => /\ cop[c].passes = 1 /\ cop[c].idx = NumSettings
                 /\ \A s \in Settings : config[s].choices # <<>>
                 /\ cam_ret'.status = "returned"
                 /\ cam_ret'.value = config[cop[c].setting].value
                 /\ cop[c].value \notin {"", "None"}
                 /\ \/ cam_ret'.value \notin {"", "None"}
                    \/ CamCallers # {c} /\ cam_ret'.value \in ApplyValues
                 /\ cam_ret'.choices = config[cop[c].setting].choices
                 /\ cam_ret'.choices # <<>>]_vars

\* the first read loaded the store with one job per entry; the second read
\* was answered from the cache
SecondReadFromCache ==
    /\ ncamops = 2 /\ njobs = NumSettings
    /\ cam_ret.op = "read" /\ cam_ret.status = "returned"
    /\ cam_ret.setting \in Settings
    /\ cam_ret.value \notin {"", "None"}
    /\ cam_ret.choices # <<>>
    /\ \A c \in CamCallers : cpc[c] = "none"

\* a RANGE text in which Bottom, Top or Step is missing or is no integer
BadRangeTexts == {"doc_no_top", "doc_bad_step"}

\* C19: a pass that gets a RANGE text in which Bottom, Top or Step is
\* missing or is not an integer raises CameraReadError and no other
\* exception, and leaves the entry as it was.
BadRangeIsReadError ==
    [][\A c \in CamCallers :
        (/\ CamReloadParse(c)
         /\ cres[c].status = "returned"
         /\ cres[c].val.stdout \in BadRangeTexts
         /\ cres[c].val.stderr \notin ErrorTexts)
        => /\ cam_ret'.status = "CameraReadError"
           /\ config' = config]_vars

\* texts with a Type that is neither RANGE nor RADIO, and texts of a
\* well-formed RANGE or RADIO with no choice
OtherTypeTexts == {"doc_toggle"}
NoChoiceTexts == {"doc_down", "doc_radio_none"}

\* C20: a pass that gets a result with empty stdout, with "error" in its
\* stderr, with a Type other than RANGE and RADIO or with no choice raises
\* CameraReadError and leaves the value and the choices of the entry as
\* they were.
UnusableResponseIsReadError ==
    [][\A c \in CamCallers :
        (/\ CamReloadParse(c)
         /\ cres[c].status = "returned"
         /\ \/ cres[c].val.stdout \in {"", "None"}
            \/ cres[c].val.stderr \in ErrorTexts
            \/ cres[c].val.stdout \in OtherTypeTexts \cup NoChoiceTexts)
        => /\ cam_ret'.status = "CameraReadError"
           /\ config' = config]_vars

\* an entry loaded by a first pass kept its value and choices when a second
\* pass got a RANGE text that counts down and so yields no choice
EmptyRangeKeepsEntry ==
    /\ ncamops = 2
    /\ cam_ret.op = "reload" /\ cam_ret.status = "CameraReadError"
    /\ njobs = NumSettings + 1
    /\ fut[njobs].outcome = "get_down"
    /\ config[SettingOrder[1]].choices # <<>>

\* the increasing progression b, b+s, ... of all terms not exceeding t, each
\* term as the string of the choice it makes
Progression(b, t, s) ==
    [i \in 1..((t - b) \div s + 1) |-> [value |-> Str(b + (i - 1) * s)]]

\* C21: for a RANGE response with integers Bottom <= Top and Step > 0, the
\* choices reload_camera caches are exactly the progression Bottom,
\* Bottom+Step, ... of all terms not exceeding Top, each as a string, and the
\* value it caches is the Current field
RangeIsProgression ==
    [][\A c \in CamCallers :
          (/\ cpc[c] = "reload_wait"
           /\ cres[c].status = "returned"
           /\ cres[c].val.stdout \in RangeTexts
           /\ CamReloadParse(c))
          => \A w \in {RangeFieldsOf(cres[c].val.stdout)} :
                (w[2] <= w[3] /\ w[4] > 0)
                => /\ config'[SettingOrder[cop[c].idx]].value = Str(w[1])
                   /\ config'[SettingOrder[cop[c].idx]].choices
                          = Progression(w[2], w[3], w[4])]_vars

\* a range 1..3 in steps of 2 standing at its top has been cached
RangeCached ==
    /\ cpc[1] = "reload_exec"
    /\ config[SettingOrder[1]].value = "3"
    /\ config[SettingOrder[1]].choices = <<[value |-> "1"], [value |-> "3"]>>

\* C22: for a RADIO response that reload_camera accepts, the choices it
\* caches are the values of the Choice lines in document order, without
\* their indexes, and the value it caches is the Current field
RadioKeepsEveryChoice ==
    [][\A c \in CamCallers :
          (/\ cpc[c] = "reload_wait"
           /\ cres[c].status = "returned"
           /\ cres[c].val.stdout \in RadioTexts
           /\ CamReloadParse(c)
           /\ config' # config)
          => \A w \in {RadioFieldsOf(cres[c].val.stdout)} :
                /\ config'[SettingOrder[cop[c].idx]].value = w[1]
                /\ config'[SettingOrder[cop[c].idx]].choices
                       = [i \in 1..Len(w[2]) |-> [value |-> w[2][i]]]]_vars

\* C23: whenever the Commander's lock is free, the busy flag is set if and
\* only if a current future exists: no thread that takes the lock finds
\* the Commander idle with a current future or busy without one
BusyIffCurrentFuture == lock = 0 => (is_busy <=> current_future # 0)

\* a job has been accepted and its submit has let go of the lock
BusyWithCurrentFuture ==
    /\ lock = 0
    /\ is_busy
    /\ current_future # 0
    /\ fut[current_future].state = "RUNNING"

\* C24: a setting whose cached value is non-empty never gets an empty
\* cached value again, whatever apply_setting, reload_camera and
\* read_setting calls follow
LoadedStaysLoaded ==
    [][\A s \in Settings : config[s].value # "" => config'[s].value # ""]_vars

\* C28: a setting whose cached value is non-empty has cached choices too,
\* so read_setting never returns a value with no choices
ValueComesWithChoices ==
    /\ \A s \in Settings : config[s].value # "" => config[s].choices # <<>>
    /\ (cam_ret.op = "read" /\ cam_ret.status = "returned" /\ cam_ret.value # "")
       => cam_ret.choices # <<>>

\* a return or raise of wait_for_outputs that reports a job which ended by
\* an exception of _run_command_internal
ReportsFailedJob(r) ==
    /\ r.op = "wait"
    /\ r.status # "WaitTimeout"
    /\ r.val.job # 0
    /\ fut[r.val.job].outcome \in Raised

\* C29: two waits that report the same job, one that ended by run timeout,
\* missing executable or unexpected failure, deliver the same kind of
\* outcome (both raise or both return a value), whether they blocked on the
\* job or were called after it completed
WaitSameKindBeforeAndAfter ==
    [][(/\ ReportsFailedJob(ret)
        /\ ReportsFailedJob(ret')
        /\ ret.val.job = ret'.val.job)
       => (ret.status \in Raised <=> ret'.status \in Raised)]_vars

\* the states of a thread between taking the reload lock and leaving the
\* with block of reload_camera
InPass == {"reload_exec", "reload_wait"}

\* C30: the reload lock is held only by a thread that is inside its
\* reload pass: every exit of reload_camera, by return or by any raise,
\* leaves the lock free for a later reload_camera or read_setting
ReloadLockFreeAfterExit ==
    \A c \in Callers : cam_lock = c => cpc[c] \in InPass

\* a first pass has failed on an unsupported widget type and a later pass
\* has taken the lock and submitted its own job
LockTakenAfterFailedPass ==
    /\ fut[1].cmd = "get"
    /\ fut[1].outcome = "get_toggle"
    /\ ncamops = 2
    /\ cam_lock = 1
    /\ cpc[1] = "reload_wait"
    /\ fut[2].cmd = "get"

\* C27: with one thread using the CameraManager and nobody else using the
\* Commander, a reload pass that has waited for the job of one entry and
\* parsed its response gets the job of the next entry accepted: its
\* execute_command never raises BusyError
NextEntryAdmitted ==
    [][\A c \in CamCallers :
          (/\ cpc[c] = "reload_exec"
           /\ cop[c].idx > 1
           /\ CamReloadSubmitted(c))
          => cres[c].status = "accepted"]_vars

\* C25: at most one thread at a time is between taking the reload lock with
\* its first --get-config submission and its last cache write, so the
\* cache writes of two passes never interleave
OnePassAtATime == Cardinality({c \in Callers : cpc[c] \in InPass}) <= 1

\* thread 2 asked for a pass while thread 1 was in its own, and has its
\* turn now that thread 1 has returned
SecondPassAfterFirst ==
    /\ cam_ret.caller = 1
    /\ cam_ret.op = "reload"
    /\ cam_ret.status = "returned"
    /\ cpc[2] \in InPass
    /\ cam_lock = 2

\* the job the latest accepted execute_command of thread c submitted
OwnJob(c) ==
    CHOOSE j \in DOMAIN fut :
        fut[j].by = c /\ \A i \in DOMAIN fut : fut[i].by = c => i <= j

\* C26: the result apply_setting or reload_camera looks at after its
\* wait_for_outputs is the result of the job this call has just submitted,
\* never the result of another thread's job or of an earlier job
InspectsOwnResult ==
    [][\A c \in Callers :
          (/\ cres[c].status = "returned"
           /\ CamApplyFinish(c) \/ CamReloadParse(c))
          => cres[c].val.job = OwnJob(c)]_vars
====
